---- MODULE Spec2Model ----
(***************************************************************************)
(* Tunnel lease manager of backend/tunnel_manager.py (TunnelManager,       *)
(* TunnelLease) and the tracked reservation facade of                      *)
(* backend/services/tunnels.py (TunnelService).                            *)
(*                                                                         *)
(* Time is a discrete clock `now`.  Python's None is modelled by NoPort    *)
(* (ports), NoTarget (targets) and ttl 0 (an omitted ttl is falsy exactly  *)
(* like 0 in `float(ttl) if ttl else default`).  The lease registry is the *)
(* insertion-ordered dict `_leases`, modelled as a sequence of LeaseInfo   *)
(* records with unique owner_id.                                           *)
(***************************************************************************)
EXTENDS Integers, Sequences, FiniteSets, TLC

\* ---------------------------------------------------------------- bounds
MaxTime == 2

\* ------------------------------------------------------- program constants
\* default_ttl of TunnelManager.__init__, in clock units
DefaultTtl == 2

\* ------------------------------------------------------------ input sets
Owners == {"a", "b"}
Targets == {<<"ip1", "admin", "x">>, <<"ip2", "admin", "x">>,
            <<"ip1", "root", "x">>, <<"ip1", "admin", "y">>}
TtlArgs == {0, 1}
PortPool == <<1161, 21161>>
NoPort == 0
NoTarget == <<>>
NoOwner == ""

PoolSet == {PortPool[i] : i \in DOMAIN PortPool}

\* inputs of the thread-level specification SpecConc
ConcTargets == {<<"ip1", "admin", "x">>, <<"ip2", "admin", "x">>}

\* inputs of the fair specification SpecLive
LiveTargets == {<<"ip1", "admin", "x">>}

\* the callers that keep the TunnelLease they were given (SpecHandle)
Slots == {1, 2}
HandleTtls == {1}

\* inputs of the facade specification SpecFacade
FacadeKeys == {"a", "b"}
FacadeTargets == {<<"ip1", "admin", "x">>, <<"ip2", "admin", "x">>}

VARIABLES
    config,          \* what the constructor is given: its ports argument, the settings
    ports,           \* TunnelManager._ports
    now,             \* wall clock, time.time()
    leases,          \* TunnelManager._leases
    active_port,     \* TunnelManager._active_port
    current_target,  \* TunnelManager._current_target
    proxy,           \* ProxyController.proxy: process liveness, listen port, target
    cs,              \* the open `with self._lock` section of a caller, if any
    jan,             \* position of the janitor thread inside _cleanup_expired
    tracked,         \* TunnelService._tracked
    held,            \* the TunnelLease objects callers hold, one slot per caller
    view,            \* the list a caller got from active_leases() and kept
    tests,           \* TestExecutionService: _results, _running_procs, each job's position
    lk,              \* holders of TunnelService._lock and TunnelManager._lock, each thread's position
    last             \* the operation that completed last, and its outcome

vars == <<config, ports, now, leases, active_port, current_target, proxy, cs, jan, tracked, held, view, tests, lk, last>>

\* ---------------------------------------------------------- configuration
\* config.py: DEFAULT_TUNNEL_PORTS
DEFAULT_TUNNEL_PORTS == <<1161, 21161, 31161>>

\* a list of ports that is not there: an argument that is None, a variable or
\* a key that is not set
NoList == [given |-> FALSE, list |-> <<>>]
Given(l) == [given |-> TRUE, list |-> l]

\* the outcome of a function that returns a list or raises
Returned(l) == [ok |-> TRUE, ports |-> l]
Raised == [ok |-> FALSE, ports |-> <<>>]

\* `for port in ports: if port not in result: result.append(port)`
RECURSIVE append_new(_, _)
append_new(result, rest) ==
    IF rest = <<>> THEN result
    ELSE IF \E i \in DOMAIN result : result[i] = Head(rest)
         THEN append_new(result, Tail(rest))
         ELSE append_new(Append(result, Head(rest)), Tail(rest))

\* TunnelManager._normalise_ports(ports)
_normalise_ports(a) ==
    IF ~a.given THEN Returned(<<1161>>)
    ELSE IF append_new(<<>>, a.list) = <<>> THEN Raised
    ELSE Returned(append_new(<<>>, a.list))

\* config._parse_ports(value), the items being integers
_parse_ports(l) ==
    IF \E i \in DOMAIN l : l[i] <= 0 \/ l[i] > 65535 THEN Raised
    ELSE IF append_new(<<>>, l) = <<>> THEN Raised
    ELSE Returned(append_new(<<>>, l))

\* config.get_tunnel_ports(): OSMK_TUNNEL_PORTS if set, else the ports of the
\* settings file if they parse, else the default
get_tunnel_ports(env, file) ==
    IF env.given /\ env.list # <<>> THEN _parse_ports(env.list)
    ELSE IF file.given /\ file.list # <<>> /\ _parse_ports(file.list).ok
         THEN _parse_ports(file.list)
    ELSE Returned(DEFAULT_TUNNEL_PORTS)

\* services/tunnels.py: _configured_ports()
_configured_ports(env, file) ==
    IF get_tunnel_ports(env, file).ok THEN get_tunnel_ports(env, file).ports
    ELSE DEFAULT_TUNNEL_PORTS

\* TunnelService.__init__: TunnelManager(..., ports=ports or _configured_ports())
service_ports(c) ==
    _normalise_ports(Given(IF c.arg.given /\ c.arg.list # <<>> THEN c.arg.list
                           ELSE _configured_ports(c.env, c.file)))

\* ------------------------------------------------------- registry helpers
Keys(ls) == {ls[i].owner_id : i \in DOMAIN ls}

Get(ls, o) == ls[CHOOSE i \in DOMAIN ls : ls[i].owner_id = o]

\* dict.pop(owner_id, None)
Pop(ls, o) == SelectSeq(ls, LAMBDA r : r.owner_id # o)

\* replace the record of r.owner_id in place (attribute assignment on info)
Update(ls, r) == [i \in DOMAIN ls |-> IF ls[i].owner_id = r.owner_id THEN r ELSE ls[i]]

\* the manager's state as one value
Mgr == [leases |-> leases, active_port |-> active_port,
        current_target |-> current_target, proxy |-> proxy]

\* --------------------------------------------------------- ProxyController
DeadProxy == [alive |-> FALSE, listen_port |-> NoPort, target |-> NoTarget]

proc_alive(p) == p.alive

controller_start(p, tg, port) == [alive |-> TRUE, listen_port |-> port, target |-> tg]

controller_close(p) == DeadProxy

\* ---------------------------------------------------------------- manager
\* _cleanup_expired_locked(now), run as one piece
cleanup_expired_locked(m, t) ==
    LET expired == {i \in DOMAIN m.leases : m.leases[i].expires_at <= t}
        kept == SelectSeq(m.leases, LAMBDA r : r.expires_at > t)
    IN IF expired # {} /\ kept = <<>>
       THEN [leases |-> kept, active_port |-> NoPort, current_target |-> NoTarget,
             proxy |-> controller_close(m.proxy)]
       ELSE [m EXCEPT !.leases = kept]

\* ttl = float(ttl) if ttl else self._default_ttl
lease_ttl(ttl) == IF ttl # 0 THEN ttl ELSE DefaultTtl

\* the renew branch without the assignment to expires_at
lease_renew_keeps_expiry(info, tg, ttl, t) ==
    [info EXCEPT !.ttl = ttl, !.last_heartbeat = t,
                 !.device_ip = tg[1], !.username = tg[2]]

\* the renew branch building a fresh LeaseInfo instead of updating the old one
lease_renew_recreates(info, tg, ttl, t) ==
    [info EXCEPT !.expires_at = t + ttl, !.ttl = ttl, !.last_heartbeat = t,
                 !.device_ip = tg[1], !.username = tg[2], !.created_at = t]

\* lease(): the branch `if info:` renews the record in place
lease_renew(info, tg, ttl, t) ==
    [info EXCEPT !.expires_at = t + ttl, !.ttl = ttl, !.last_heartbeat = t,
                 !.device_ip = tg[1], !.username = tg[2]]

RECURSIVE select_from(_, _, _, _)
select_from(ps, i, ap, busy) ==
    IF i > Len(ps) THEN NoPort
    ELSE IF ap = ps[i] THEN ps[i]
    ELSE IF ps[i] \notin busy THEN ps[i]
    ELSE select_from(ps, i + 1, ap, busy)

\* _select_port falling back to the first configured port when every probe fails
select_port_fallback(ap, busy) ==
    IF select_from(PortPool, 1, ap, busy) = NoPort THEN PortPool[1]
    ELSE select_from(PortPool, 1, ap, busy)

RECURSIVE select_from_end(_, _, _, _)
select_from_end(ps, i, ap, busy) ==
    IF i < 1 THEN NoPort
    ELSE IF ap = ps[i] THEN ps[i]
    ELSE IF ps[i] \notin busy THEN ps[i]
    ELSE select_from_end(ps, i - 1, ap, busy)

\* _select_port scanning the candidates from the last to the first
select_port_reversed(ap, busy) == select_from_end(PortPool, Len(PortPool), ap, busy)

\* _select_port(); NoPort stands for raising TunnelPortsBusyError
select_port(ap, busy) == select_from(PortPool, 1, ap, busy)

\* _ensure_controller closing the running proxy when it rejects the request
ensure_controller_drop(m, tg, busy, startOk) ==
    IF proc_alive(m.proxy)
    THEN LET port == m.proxy.listen_port
             m1 == [m EXCEPT !.active_port = port]
         IN IF m.current_target # NoTarget /\ m.current_target # tg
            THEN [m |-> [m1 EXCEPT !.proxy = controller_close(m.proxy)],
                  res |-> "ConfigurationError", port |-> NoPort]
            ELSE [m |-> [m1 EXCEPT !.current_target = tg], res |-> "ok", port |-> port]
    ELSE LET port == select_port(m.active_port, busy)
         IN IF port = NoPort
            THEN [m |-> m, res |-> "PortsBusyError", port |-> NoPort]
            ELSE IF ~startOk
            THEN [m |-> m, res |-> "StartError", port |-> NoPort]
            ELSE [m |-> [m EXCEPT !.proxy = controller_start(m.proxy, tg, port),
                                  !.active_port = port,
                                  !.current_target = tg],
                  res |-> "ok", port |-> port]

\* _ensure_controller without the comparison against _current_target
ensure_controller_retarget(m, tg, busy, startOk) ==
    IF proc_alive(m.proxy)
    THEN LET port == m.proxy.listen_port
         IN [m |-> [m EXCEPT !.active_port = port, !.current_target = tg],
             res |-> "ok", port |-> port]
    ELSE LET port == select_port(m.active_port, busy)
         IN IF port = NoPort
            THEN [m |-> m, res |-> "PortsBusyError", port |-> NoPort]
            ELSE IF ~startOk
            THEN [m |-> m, res |-> "StartError", port |-> NoPort]
            ELSE [m |-> [m EXCEPT !.proxy = controller_start(m.proxy, tg, port),
                                  !.active_port = port,
                                  !.current_target = tg],
                  res |-> "ok", port |-> port]

\* _ensure_controller(ip, username, password)
ensure_controller(m, tg, busy, startOk) ==
    IF proc_alive(m.proxy)
    THEN LET port == m.proxy.listen_port
             m1 == [m EXCEPT !.active_port = port]
         IN IF m.current_target # NoTarget /\ m.current_target # tg
            THEN [m |-> m1, res |-> "ConfigurationError", port |-> NoPort]
            ELSE [m |-> [m1 EXCEPT !.current_target = tg], res |-> "ok", port |-> port]
    ELSE LET port == select_port(m.active_port, busy)
         IN IF port = NoPort
            THEN [m |-> m, res |-> "PortsBusyError", port |-> NoPort]
            ELSE IF ~startOk
            THEN [m |-> m, res |-> "StartError", port |-> NoPort]
            ELSE [m |-> [m EXCEPT !.proxy = controller_start(m.proxy, tg, port),
                                  !.active_port = port,
                                  !.current_target = tg],
                  res |-> "ok", port |-> port]

\* LeaseInfo(...) of a new owner
new_lease(o, port, tg, ttl, t) ==
    [owner_id |-> o, port |-> port, created_at |-> t, expires_at |-> t + ttl,
     ttl |-> ttl, device_ip |-> tg[1], username |-> tg[2], last_heartbeat |-> t]

\* lease(): `info = self._leases.get(owner_id)` and the branch `if info:`
lease_lookup(m, o, tg, ttl, t) ==
    IF o \in Keys(m.leases)
    THEN [m |-> [m EXCEPT !.leases = Update(m.leases,
                        lease_renew(Get(m.leases, o), tg, lease_ttl(ttl), t))],
          res |-> "renewed"]
    ELSE [m |-> m, res |-> "pending"]

\* lease() looking the owner up in a registry it has not swept
lease_begin_nosweep(m, o, tg, ttl, t) == lease_lookup(m, o, tg, ttl, t)

\* lease(), first half of the locked section: sweep, look the owner up, renew
lease_begin(m, o, tg, ttl, t) == lease_lookup(cleanup_expired_locked(m, t), o, tg, ttl, t)

\* lease(): the LeaseInfo of the new owner is stored after _ensure_controller
lease_insert(e, o, tg, ttl, t) ==
    IF e.res # "ok"
    THEN [m |-> e.m, res |-> e.res]
    ELSE [m |-> [e.m EXCEPT !.leases =
                     Append(Pop(e.m.leases, o), new_lease(o, e.port, tg, lease_ttl(ttl), t))],
          res |-> "created"]

\* lease(), second half: _ensure_controller and the insertion of the new record
lease_finish(m, o, tg, ttl, t, busy, startOk) ==
    lease_insert(ensure_controller(m, tg, busy, startOk), o, tg, ttl, t)

\* lease(): what follows the lookup
lease_continue(b, o, tg, ttl, t, busy, startOk) ==
    IF b.res = "renewed" THEN b
    ELSE lease_finish(b.m, o, tg, ttl, t, busy, startOk)

\* lease() without the test of owner_id
lease_unchecked(m, o, tg, ttl, t, busy, startOk) ==
    lease_continue(lease_begin(m, o, tg, ttl, t), o, tg, ttl, t, busy, startOk)

\* lease() as a whole, from `if not owner_id` to the return or the raise
lease(m, o, tg, ttl, t, busy, startOk) ==
    IF o = NoOwner THEN [m |-> m, res |-> "ManagerError"]
    ELSE lease_continue(lease_begin(m, o, tg, ttl, t), o, tg, ttl, t, busy, startOk)

\* heartbeat() creating a record for an owner it does not find
heartbeat_upsert(m, o, ttl, t) ==
    IF o \notin Keys(m.leases)
    THEN [m EXCEPT !.leases = Append(m.leases,
             [owner_id |-> o, port |-> m.active_port, created_at |-> t,
              expires_at |-> t + lease_ttl(ttl), ttl |-> lease_ttl(ttl),
              device_ip |-> "", username |-> "", last_heartbeat |-> t])]
    ELSE LET info == Get(m.leases, o)
             ttl1 == IF ttl # 0 THEN ttl ELSE info.ttl
             ttl2 == IF ttl1 # 0 THEN ttl1 ELSE DefaultTtl
         IN [m EXCEPT !.leases = Update(m.leases,
                 [info EXCEPT !.ttl = ttl1, !.expires_at = t + ttl2, !.last_heartbeat = t])]

\* heartbeat() that extends the lease by its stored ttl whatever the argument
heartbeat_stored_ttl(m, o, ttl, t) ==
    IF o \notin Keys(m.leases) THEN m
    ELSE LET info == Get(m.leases, o)
         IN [m EXCEPT !.leases = Update(m.leases,
                 [info EXCEPT !.expires_at = t + info.ttl, !.last_heartbeat = t])]

\* heartbeat()
heartbeat(m, o, ttl, t) ==
    IF o \notin Keys(m.leases) THEN m
    ELSE LET info == Get(m.leases, o)
             ttl1 == IF ttl # 0 THEN ttl ELSE info.ttl
             ttl2 == IF ttl1 # 0 THEN ttl1 ELSE DefaultTtl
         IN [m EXCEPT !.leases = Update(m.leases,
                 [info EXCEPT !.ttl = ttl1, !.expires_at = t + ttl2, !.last_heartbeat = t])]

\* release(), the pop
release_pop(m, o) == [m EXCEPT !.leases = Pop(m.leases, o)]

\* release(), the teardown of the drained tunnel
release_teardown(m) ==
    [m EXCEPT !.proxy = controller_close(m.proxy),
              !.active_port = NoPort, !.current_target = NoTarget]

\* release() as a whole; raised tells whether the call raised
release_strict(m, o) ==
    IF o \notin Keys(m.leases) THEN [m |-> m, res |-> "noop", raised |-> TRUE]
    ELSE LET m1 == release_pop(m, o)
         IN IF m1.leases # <<>> THEN [m |-> m1, res |-> "removed", raised |-> FALSE]
            ELSE [m |-> release_teardown(m1), res |-> "drained", raised |-> FALSE]

release(m, o) ==
    IF o \notin Keys(m.leases) THEN [m |-> m, res |-> "noop", raised |-> FALSE]
    ELSE LET m1 == release_pop(m, o)
         IN IF m1.leases # <<>> THEN [m |-> m1, res |-> "removed", raised |-> FALSE]
            ELSE [m |-> release_teardown(m1), res |-> "drained", raised |-> FALSE]

\* LeaseInfo.as_dict(): a new dict built from the record's fields
as_dict(info) ==
    [owner_id |-> info.owner_id, port |-> info.port, created_at |-> info.created_at,
     expires_at |-> info.expires_at, ttl |-> info.ttl, device_ip |-> info.device_ip,
     username |-> info.username, last_heartbeat |-> info.last_heartbeat]

\* active_leases() answering without the sweep
active_leases_unswept(m, t) ==
    [m |-> m, result |-> [i \in DOMAIN m.leases |-> as_dict(m.leases[i])]]

\* active_leases(): sweep, then the list of as_dict() of what is left
active_leases(m, t) ==
    LET m1 == cleanup_expired_locked(m, t)
    IN [m |-> m1, result |-> [i \in DOMAIN m1.leases |-> as_dict(m1.leases[i])]]

\* ------------------------------------------------------------ TunnelLease
\* a handle: TunnelLease(manager, owner_id) with its _released flag
NoHandle == [owner_id |-> NoOwner, released |-> FALSE]

new_handle(o) == [owner_id |-> o, released |-> FALSE]

\* TunnelLease.release() without the test of _released
handle_release_always(m, h) ==
    [m |-> release(m, h.owner_id).m, h |-> [h EXCEPT !.released = TRUE]]

\* TunnelLease.release() that sets the flag and leaves the manager alone
handle_release_flag_only(m, h) == [m |-> m, h |-> [h EXCEPT !.released = TRUE]]

\* TunnelLease.release()
handle_release(m, h) ==
    IF h.released THEN [m |-> m, h |-> h]
    ELSE [m |-> release(m, h.owner_id).m, h |-> [h EXCEPT !.released = TRUE]]

\* ---------------------------------------------------------- TunnelService
\* reserve(): manager.lease(), then the `if track:` block under the facade lock
reserve(m, tr, k, tg, ttl, t, busy, startOk, track) ==
    LET r == lease(m, k, tg, ttl, t, busy, startOk)
    IN IF r.res \notin {"created", "renewed"}
       THEN [m |-> r.m, tracked |-> tr, res |-> r.res]
       ELSE IF ~track
       THEN [m |-> r.m, tracked |-> tr, res |-> r.res]
       ELSE LET previous == tr[k]
                m2 == IF previous # NoHandle THEN handle_release(r.m, previous).m ELSE r.m
            IN [m |-> m2, tracked |-> [tr EXCEPT ![k] = new_handle(k)], res |-> r.res]

\* TunnelService.release()
facade_release(m, tr, k) ==
    LET h == tr[k]
    IN [m |-> IF h # NoHandle THEN handle_release(m, h).m ELSE release(m, k).m,
        tracked |-> [tr EXCEPT ![k] = NoHandle]]

\* ---------------------------------------------------- handles of callers
\* A slot holds the TunnelLease a caller got from reserve(): its owner_id and
\* _released flag, whether it is the very object stored in _tracked[owner_id]
\* (reserve() returns the object it tracks), and whether the caller is inside
\* a `with` block on it; born is the created_at of the lease it was returned
\* for, kept as long as the handle can still reach the manager.
NoHeld == [owner_id |-> NoOwner, released |-> FALSE, alias |-> FALSE, scope |-> FALSE,
           born |-> 0]

\* the facade called release() on the object tracked under k and took it out
\* of the map: callers holding that object see its flag set
FacadeReleased(hs, k) ==
    [i \in Slots |-> IF hs[i].alias /\ hs[i].owner_id = k
                     THEN [hs[i] EXCEPT !.released = TRUE, !.alias = FALSE, !.born = 0]
                     ELSE hs[i]]

\* a caller called release() on the object in slot i: the tracking map, if it
\* holds that object, sees its flag set
CallerReleased(tr, h) ==
    IF h.alias THEN [tr EXCEPT ![h.owner_id].released = TRUE] ELSE tr

\* what a release() on handle h amounts to in registry ls: nothing when the
\* handle was released before ("noop"), a manager release() that finds no
\* lease ("gone") or one that removes the owner's lease ("called")
ReleaseKind(ls, h) ==
    IF h.released THEN "noop"
    ELSE IF h.owner_id \notin Keys(ls) THEN "gone"
    ELSE "called"

\* ------------------------------------------------ TestExecutionService
\* ttl of the reserve() in run() (3600.0 seconds), in clock units
TestsTtl == 2
\* ResultRepository(limit=20), scaled to the number of jobs tried
ResultsLimit == 1
\* a job is named by its lease key, "tests:<job_id>"; job ids are fresh
JobIds == FacadeKeys
\* where run() can leave off: it returns, or create(), save_job() or
\* add_task() raises
RunOutcomes == {"ok", "create_raises", "save_raises", "add_task_raises"}
\* the service after __init__: no records, no processes, no job started
NoJobs == [results |-> <<>>, running_procs |-> {}, pc |-> [k \in JobIds |-> "new"]]

\* ResultRepository._evict_if_needed(): popitem(last=False) while over the limit
RECURSIVE _evict_if_needed(_)
_evict_if_needed(items) ==
    IF Len(items) > ResultsLimit THEN _evict_if_needed(Tail(items)) ELSE items

\* ResultRepository.create(): the record goes to the end, then eviction
repo_create(items, k) ==
    _evict_if_needed(Append(SelectSeq(items, LAMBDA x : x # k), k))

\* ResultRepository.update() of a record that is there: move_to_end, eviction
repo_update(items, k) == repo_create(items, k)

\* ResultRepository.get() finds a record
repo_has(items, k) == \E i \in DOMAIN items : items[i] = k

\* ------------------------------------------------------------------ locks
\* threads calling into the facade and the manager
Threads == {1, 2}
\* a thread outside every call; inside one: the statement it is at, the owner
\* id of the call, the TunnelLease it popped, and whether it goes on to track
NoThread == [pc |-> "idle", key |-> NoOwner, h |-> NoHandle, track |-> FALSE]
\* both locks free (0: no holder), every thread idle
NoLocks == [facade |-> 0, manager |-> 0, th |-> [t \in Threads |-> NoThread]]
\* threading.RLock.acquire() goes through: free, or held by the caller
Free(holder, t) == holder \in {0, t}

\* ------------------------------------------------------------------ state
NoCs == [op |-> "none", owner |-> NoOwner, target |-> NoTarget, ttl |-> 0, now |-> 0,
         swept |-> 0]
\* the janitor thread in self._stop_event.wait(...), and the stop event
JanIdle == [pc |-> "idle", expired |-> <<>>, stop_event |-> FALSE]
\* the janitor thread back at the head of its loop
JanWaiting(j) == [JanIdle EXCEPT !.stop_event = j.stop_event]
\* the number of records the sweep of _cleanup_expired_locked() finds expired
Swept(ls, t) == Cardinality({i \in DOMAIN ls : ls[i].expires_at <= t})
\* a completed call: operation, owner id, outcome and, for lease()/reserve(),
\* the requested Target, the time the call read on entry, the set of pool
\* ports that were occupied when the call probed them and the number of
\* records its sweep removed; for heartbeat(), the time it read and its ttl
\* argument
OpCall(op, o, res, tg, t, busy, n) ==
    [op |-> op, owner |-> o, res |-> res, target |-> tg, at |-> t, busy |-> busy,
     swept |-> n, ttl |-> 0]
OpEnv(op, o, res, tg, t, busy) == OpCall(op, o, res, tg, t, busy, 0)
OpAt(op, o, res, tg, t) == OpEnv(op, o, res, tg, t, {})
Op(op, o, res) == OpAt(op, o, res, NoTarget, 0)

SetMgr(m) ==
    /\ leases' = m.leases
    /\ active_port' = m.active_port
    /\ current_target' = m.current_target
    /\ proxy' = m.proxy

\* the manager as every other specification has it: built from PortPool
Configured == [arg |-> Given(PortPool), env |-> NoList, file |-> NoList]

Init ==
    /\ config = Configured
    /\ ports = PortPool
    /\ now = 0
    /\ leases = <<>>
    /\ active_port = NoPort
    /\ current_target = NoTarget
    /\ proxy = DeadProxy
    /\ cs = NoCs
    /\ jan = JanIdle
    /\ tracked = [k \in FacadeKeys |-> NoHandle]
    /\ held = [i \in Slots |-> NoHeld]
    /\ view = <<>>
    /\ tests = NoJobs
    /\ lk = NoLocks
    /\ last = Op("init", NoOwner, "ok")

\* ---------------------------------------------------------- construction
\* port values a configuration may hold, and the longest list tried
PortValues == {0, 1161, 21161, 70000}
MaxPorts == 3
PortLists == UNION {[1..n -> PortValues] : n \in 0..MaxPorts}
Settings == {NoList, Given(<<70000>>), Given(<<21161, 1161, 21161>>)}

\* before any constructor has run: an argument, an environment variable and a
\* settings file, and no manager yet
InitConfig ==
    /\ config \in [arg : {NoList} \cup {Given(l) : l \in PortLists},
                    env : Settings, file : {NoList, Given(<<0>>)}]
    /\ ports = <<>>
    /\ now = 0
    /\ leases = <<>>
    /\ active_port = NoPort
    /\ current_target = NoTarget
    /\ proxy = DeadProxy
    /\ cs = NoCs
    /\ jan = [JanIdle EXCEPT !.pc = "unborn"]
    /\ tracked = [k \in FacadeKeys |-> NoHandle]
    /\ held = [i \in Slots |-> NoHeld]
    /\ view = <<>>
    /\ tests = NoJobs
    /\ lk = NoLocks
    /\ last = Op("init", NoOwner, "ok")

\* a constructor that got pool r: __init__ runs to the start of the janitor
\* thread, or _normalise_ports raised and there is no manager
Constructed(op, r) ==
    /\ last.op = "init"
    /\ ports' = r.ports
    /\ jan' = IF r.ok THEN JanIdle ELSE jan
    /\ last' = Op(op, NoOwner, IF r.ok THEN "ok" ELSE "ManagerError")
    /\ UNCHANGED <<lk, tests, config, now, leases, active_port, current_target, proxy, cs, tracked,
                   held, view>>

\* TunnelManager(controller, ports=config.arg)
NewTunnelManager == Constructed("TunnelManager", _normalise_ports(config.arg))

\* TunnelService(ports=config.arg)
NewTunnelService == Constructed("TunnelService", service_ports(config))

NextConfig == NewTunnelManager \/ NewTunnelService

SpecConfig == InitConfig /\ [][NextConfig]_vars

\* time passes
Tick ==
    /\ now < MaxTime
    /\ now' = now + 1
    /\ UNCHANGED <<lk, tests, config, ports, leases, active_port, current_target, proxy, cs, jan, tracked, held, view, last>>

\* lease(): `with self._lock` entered; sweep, lookup and the renew branch
LeaseBegin(o, tg, ttl, t) ==
    /\ cs = NoCs
    /\ o # NoOwner
    /\ \E r \in {lease_begin(Mgr, o, tg, ttl, t)} :
       /\ SetMgr(r.m)
       /\ IF r.res = "renewed"
          THEN /\ cs' = NoCs
               /\ last' = OpCall("lease", o, "renewed", tg, t, {}, Swept(leases, t))
          ELSE /\ cs' = [op |-> "lease", owner |-> o, target |-> tg, ttl |-> ttl, now |-> t,
                         swept |-> Swept(leases, t)]
               /\ last' = last
    /\ UNCHANGED <<lk, tests, config, ports, now, jan, tracked, held, view>>

\* lease(): _ensure_controller, insertion, lock released
LeaseFinish(busy, startOk) ==
    /\ cs.op = "lease"
    /\ \E r \in {lease_finish(Mgr, cs.owner, cs.target, cs.ttl, cs.now, busy, startOk)} :
       /\ SetMgr(r.m)
       /\ last' = OpCall("lease", cs.owner, r.res, cs.target, cs.now, busy, cs.swept)
    /\ cs' = NoCs
    /\ UNCHANGED <<lk, tests, config, ports, now, jan, tracked, held, view>>

Heartbeat(o, ttl, t) ==
    /\ cs = NoCs
    /\ SetMgr(heartbeat(Mgr, o, ttl, t))
    /\ last' = [OpAt("heartbeat", o, IF o \in Keys(leases) THEN "ok" ELSE "noop", NoTarget, t)
                   EXCEPT !.ttl = ttl]
    /\ UNCHANGED <<lk, tests, config, ports, now, cs, jan, tracked, held, view>>

\* release(): lock taken, pop; returns here unless the registry drained
ReleaseBegin(o) ==
    /\ cs = NoCs
    /\ IF o \notin Keys(leases)
       THEN /\ last' = Op("release", o, "noop")
            /\ UNCHANGED <<leases, active_port, current_target, proxy, cs>>
       ELSE /\ SetMgr(release_pop(Mgr, o))
            /\ IF Pop(leases, o) # <<>>
               THEN /\ cs' = NoCs
                    /\ last' = Op("release", o, "removed")
               ELSE /\ cs' = [NoCs EXCEPT !.op = "release", !.owner = o]
                    /\ last' = last
    /\ UNCHANGED <<lk, tests, config, ports, now, jan, tracked, held, view>>

\* release(): close the controller, clear port and target, lock released
ReleaseFinish ==
    /\ cs.op = "release"
    /\ SetMgr(release_teardown(Mgr))
    /\ last' = Op("release", cs.owner, "drained")
    /\ cs' = NoCs
    /\ UNCHANGED <<lk, tests, config, ports, now, jan, tracked, held, view>>

\* active_leases(): sweep under the lock, then the snapshot, which the caller
\* keeps (keep) or looks at and drops
ActiveLeases(keep) ==
    /\ cs = NoCs
    /\ \E r \in {active_leases(Mgr, now)} :
       /\ SetMgr(r.m)
       /\ view' = IF keep THEN r.result ELSE view
    /\ last' = Op("active_leases", NoOwner, "ok")
    /\ UNCHANGED <<lk, tests, config, ports, now, cs, jan, tracked, held>>

\* ---------------------------------------------------------------- janitor
\* _janitor_loop -> _cleanup_expired -> _cleanup_expired_locked(time.time()),
\* entered without `with self._lock`; one step per statement.
\* the collection with `<` in place of `<=`
JanCollectStrict ==
    /\ jan.pc = "idle"
    /\ ~jan.stop_event
    /\ jan' = [jan EXCEPT !.pc = "pop", !.expired =
                  [i \in DOMAIN SelectSeq(leases, LAMBDA r : r.expires_at < now) |->
                      SelectSeq(leases, LAMBDA r : r.expires_at < now)[i].owner_id]]
    /\ UNCHANGED <<lk, tests, config, ports, now, leases, active_port, current_target, proxy, cs, tracked, held, view, last>>

JanCollect ==
    /\ jan.pc = "idle"
    /\ ~jan.stop_event
    /\ jan' = [jan EXCEPT !.pc = "pop", !.expired =
                  [i \in DOMAIN SelectSeq(leases, LAMBDA r : r.expires_at <= now) |->
                      SelectSeq(leases, LAMBDA r : r.expires_at <= now)[i].owner_id]]
    /\ UNCHANGED <<lk, tests, config, ports, now, leases, active_port, current_target, proxy, cs, tracked, held, view, last>>

JanPop ==
    /\ jan.pc = "pop"
    /\ IF jan.expired = <<>>
       THEN /\ jan' = [jan EXCEPT !.pc = "idle"]
            /\ leases' = leases
       ELSE /\ leases' = Pop(leases, Head(jan.expired))
            /\ jan' = IF Len(jan.expired) = 1
                      THEN [jan EXCEPT !.pc = "test"]
                      ELSE [jan EXCEPT !.expired = Tail(jan.expired)]
    /\ UNCHANGED <<lk, tests, config, ports, now, active_port, current_target, proxy, cs, tracked, held, view, last>>

JanTest ==
    /\ jan.pc = "test"
    /\ jan' = IF leases = <<>> THEN [jan EXCEPT !.pc = "close"] ELSE JanWaiting(jan)
    /\ UNCHANGED <<lk, tests, config, ports, now, leases, active_port, current_target, proxy, cs, tracked, held, view, last>>

JanClose ==
    /\ jan.pc = "close"
    /\ proxy' = controller_close(proxy)
    /\ jan' = [jan EXCEPT !.pc = "clear_port"]
    /\ UNCHANGED <<lk, tests, config, ports, now, leases, active_port, current_target, cs, tracked, held, view, last>>

\* self._controller.close() raising in a loop that does not catch it: the
\* thread ends
JanCloseRaisesUncaught ==
    /\ jan.pc = "close"
    /\ proxy' \in {proxy, controller_close(proxy)}
    /\ jan' = [JanWaiting(jan) EXCEPT !.pc = "dead"]
    /\ last' = Op("sweep_raised", NoOwner, "uncaught")
    /\ UNCHANGED <<lk, tests, config, ports, now, leases, active_port, current_target, cs, tracked, held, view>>

\* self._controller.close() raises: the two assignments after it are skipped,
\* `except Exception: pass` of _janitor_loop takes the error and the loop goes
\* back to `self._stop_event.wait(...)`; the proxy may or may not have stopped
JanCloseRaises ==
    /\ jan.pc = "close"
    /\ proxy' \in {proxy, controller_close(proxy)}
    /\ jan' = JanWaiting(jan)
    /\ last' = Op("sweep_raised", NoOwner, "swallowed")
    /\ UNCHANGED <<lk, tests, config, ports, now, leases, active_port, current_target, cs, tracked, held, view>>

JanClearPort ==
    /\ jan.pc = "clear_port"
    /\ active_port' = NoPort
    /\ jan' = [jan EXCEPT !.pc = "clear_target"]
    /\ UNCHANGED <<lk, tests, config, ports, now, leases, current_target, proxy, cs, tracked, held, view, last>>

JanClearTarget ==
    /\ jan.pc = "clear_target"
    /\ current_target' = NoTarget
    /\ jan' = JanWaiting(jan)
    /\ UNCHANGED <<lk, tests, config, ports, now, leases, active_port, proxy, cs, tracked, held, view, last>>

\* `while not self._stop_event.wait(...)` finds the event set: the loop and
\* the thread end
JanStop ==
    /\ jan.pc = "idle"
    /\ jan.stop_event
    /\ jan' = [jan EXCEPT !.pc = "stopped"]
    /\ UNCHANGED <<lk, tests, config, ports, now, leases, active_port, current_target, proxy, cs, tracked, held, view, last>>

\* shutdown() that goes to the join without setting the event
ShutdownSetNothing ==
    /\ cs = NoCs
    /\ cs' = [NoCs EXCEPT !.op = "shutdown"]
    /\ UNCHANGED <<lk, tests, config, ports, now, leases, active_port, current_target, proxy, jan, tracked, held, view, last>>

\* shutdown(): self._stop_event.set()
ShutdownSet ==
    /\ cs = NoCs
    /\ jan' = [jan EXCEPT !.stop_event = TRUE]
    /\ cs' = [NoCs EXCEPT !.op = "shutdown"]
    /\ UNCHANGED <<lk, tests, config, ports, now, leases, active_port, current_target, proxy, tracked, held, view, last>>

\* shutdown(): `if self._janitor.is_alive(): self._janitor.join(timeout=1.0)`
\* comes back, the thread having ended or the second having passed
ShutdownReturn ==
    /\ cs.op = "shutdown"
    /\ cs' = NoCs
    /\ last' = Op("shutdown", NoOwner, IF jan.pc = "stopped" THEN "joined" ELSE "timeout")
    /\ UNCHANGED <<lk, tests, config, ports, now, leases, active_port, current_target, proxy, jan, tracked, held, view>>

\* What the environment decides when _ensure_controller runs on m: which pool
\* ports another process occupies and whether controller.start() succeeds.
\* Both are read only on the path that starts the proxy.
Env(m) ==
    IF proc_alive(m.proxy) THEN {[busy |-> {}, startOk |-> TRUE]}
    ELSE [busy : SUBSET PoolSet, startOk : BOOLEAN]

\* ------------------------------------------------- calls run undisturbed
\* lease() from entry to return with no other thread running in between
Lease(o, tg, ttl, t, busy, startOk) ==
    /\ cs = NoCs
    /\ jan = JanIdle
    /\ \E r \in {lease(Mgr, o, tg, ttl, t, busy, startOk)} :
       /\ SetMgr(r.m)
       /\ last' = OpCall("lease", o, r.res, tg, t, busy,
                         IF o = NoOwner THEN 0 ELSE Swept(leases, t))
    /\ UNCHANGED <<lk, tests, config, ports, now, cs, jan, tracked, held, view>>

Release(o) ==
    /\ cs = NoCs
    /\ jan = JanIdle
    /\ \E r \in {release(Mgr, o)} :
       /\ SetMgr(r.m)
       /\ last' = Op("release", o, IF r.raised THEN "ManagerError" ELSE r.res)
    /\ UNCHANGED <<lk, tests, config, ports, now, cs, jan, tracked, held, view>>

\* one janitor tick whose _cleanup_expired() runs undisturbed
Sweep ==
    /\ cs = NoCs
    /\ jan = JanIdle
    /\ SetMgr(cleanup_expired_locked(Mgr, now))
    /\ last' = Op("sweep", NoOwner, "ok")
    /\ UNCHANGED <<lk, tests, config, ports, now, cs, jan, tracked, held, view>>

\* the proxy process ends on its own; the manager learns of it from the next
\* _proc_alive() it asks for
ProxyExits ==
    /\ cs = NoCs
    /\ jan = JanIdle
    /\ proc_alive(proxy)
    /\ proxy' = DeadProxy
    /\ last' = Op("proxy_exit", NoOwner, "ok")
    /\ UNCHANGED <<lk, tests, config, ports, now, leases, active_port, current_target, cs, jan, tracked, held, view>>

\* ----------------------------------------------------------------- facade
Reserve(k, tg, ttl, t, busy, startOk, track) ==
    /\ cs = NoCs
    /\ jan = JanIdle
    /\ \E r \in {reserve(Mgr, tracked, k, tg, ttl, t, busy, startOk, track)} :
       /\ SetMgr(r.m)
       /\ tracked' = r.tracked
       /\ held' = IF track /\ r.res \in {"created", "renewed"}
                  THEN FacadeReleased(held, k) ELSE held
       /\ last' = OpCall(IF track THEN "reserve_tracked" ELSE "reserve", k, r.res, tg, t,
                         busy, Swept(leases, t))
    /\ UNCHANGED <<lk, tests, config, ports, now, cs, jan, view>>

\* reserve() by the caller of slot i, who keeps the returned TunnelLease
HReserve(i, k, tg, ttl, t, busy, startOk, track) ==
    /\ cs = NoCs
    /\ jan = JanIdle
    /\ held[i] = NoHeld
    /\ \E r \in {reserve(Mgr, tracked, k, tg, ttl, t, busy, startOk, track)} :
       /\ SetMgr(r.m)
       /\ tracked' = r.tracked
       /\ held' = IF r.res \notin {"created", "renewed"} THEN held
                  ELSE [(IF track THEN FacadeReleased(held, k) ELSE held) EXCEPT
                           ![i] = [owner_id |-> k, released |-> FALSE,
                                   alias |-> track, scope |-> FALSE,
                                   born |-> IF r.res = "created" THEN t
                                            ELSE Get(leases, k).created_at]]
       /\ last' = OpCall(IF track THEN "reserve_tracked" ELSE "reserve", k, r.res, tg, t,
                         busy, Swept(leases, t))
    /\ UNCHANGED <<lk, tests, config, ports, now, cs, jan, view>>

\* `with lease:` entered: __enter__ returns (host, port), and port reads the
\* owner's LeaseInfo; when there is none it raises and __exit__ is not run
HEnter(i) ==
    /\ cs = NoCs
    /\ jan = JanIdle
    /\ held[i] # NoHeld
    /\ ~held[i].scope
    /\ IF held[i].owner_id \in Keys(leases)
       THEN /\ held' = [held EXCEPT ![i].scope = TRUE]
            /\ last' = Op("enter", held[i].owner_id, "ok")
       ELSE /\ held' = [held EXCEPT ![i] = NoHeld]
            /\ last' = Op("enter", held[i].owner_id, "ManagerError")
    /\ UNCHANGED <<lk, tests, config, ports, now, leases, active_port, current_target, proxy, cs, jan, tracked, view>>

\* the `with` block is left, normally or by an exception: __exit__ -> release()
HExit(i, exc) ==
    /\ cs = NoCs
    /\ jan = JanIdle
    /\ held[i].scope
    /\ \E r \in {handle_release(Mgr, held[i])} :
       /\ SetMgr(r.m)
       /\ tracked' = CallerReleased(tracked, held[i])
       /\ held' = [held EXCEPT ![i] = NoHeld]
       /\ last' = Op(IF exc THEN "exit_raised" ELSE "exit",
                     held[i].owner_id, ReleaseKind(leases, held[i]))
    /\ UNCHANGED <<lk, tests, config, ports, now, cs, jan, view>>

\* lease.release() called by the holder
HRelease(i) ==
    /\ cs = NoCs
    /\ jan = JanIdle
    /\ held[i] # NoHeld
    /\ \E r \in {handle_release(Mgr, held[i])} :
       /\ SetMgr(r.m)
       /\ tracked' = CallerReleased(tracked, held[i])
       /\ held' = [held EXCEPT ![i] = [r.h EXCEPT !.born = 0]]
       /\ last' = Op("handle_release", held[i].owner_id, ReleaseKind(leases, held[i]))
    /\ UNCHANGED <<lk, tests, config, ports, now, cs, jan, view>>

\* the holder drops its reference to the TunnelLease
HDrop(i) ==
    /\ held[i] # NoHeld
    /\ ~held[i].scope
    /\ held' = [held EXCEPT ![i] = NoHeld]
    /\ last' = Op("drop", held[i].owner_id, "ok")
    /\ UNCHANGED <<lk, tests, config, ports, now, leases, active_port, current_target, proxy, cs, jan, tracked, view>>

\* reserve(track=True), statement by statement.  The call to manager.lease():
\* it is made before the facade lock is taken; an error leaves reserve() here
TrackLease(k, tg, ttl, t, busy, startOk) ==
    /\ cs = NoCs
    /\ jan = JanIdle
    /\ \E r \in {lease(Mgr, k, tg, ttl, t, busy, startOk)} :
       /\ SetMgr(r.m)
       /\ last' = OpCall("lease", k, r.res, tg, t, busy, Swept(leases, t))
       /\ cs' = IF r.res \in {"created", "renewed"}
                THEN [NoCs EXCEPT !.op = "track", !.owner = k, !.target = tg, !.now = t]
                ELSE NoCs
    /\ UNCHANGED <<lk, tests, config, ports, now, jan, tracked, held, view>>

\* `with self._lock`: previous = self._tracked.pop(owner_id, None) and
\* `if previous is not None: previous.release()`
TrackPop ==
    /\ cs.op = "track"
    /\ LET previous == tracked[cs.owner]
       IN /\ tracked' = [tracked EXCEPT ![cs.owner] = NoHandle]
          /\ IF previous # NoHandle
             THEN /\ SetMgr(handle_release(Mgr, previous).m)
                  /\ held' = FacadeReleased(held, cs.owner)
             ELSE UNCHANGED <<leases, active_port, current_target, proxy, held>>
    /\ cs' = [cs EXCEPT !.op = "install"]
    /\ UNCHANGED <<lk, tests, config, ports, now, jan, view, last>>

\* self._tracked[owner_id] = lease, the lock released, `return lease`
TrackInstall ==
    /\ cs.op = "install"
    /\ tracked' = [tracked EXCEPT ![cs.owner] = new_handle(cs.owner)]
    /\ last' = [last EXCEPT !.op = "reserve_tracked"]
    /\ cs' = NoCs
    /\ UNCHANGED <<lk, tests, config, ports, now, leases, active_port, current_target, proxy, jan, held, view>>

\* TunnelService.release(k) run by another thread while reserve(k, track=True)
\* is between its manager.lease() and `with self._lock`; `last` keeps the
\* outcome of that lease() for the reserve() still to return
FacadeReleaseDuring(k) ==
    /\ cs.op = "track"
    /\ cs.owner = k
    /\ jan = JanIdle
    /\ \E r \in {facade_release(Mgr, tracked, k)} :
       /\ SetMgr(r.m)
       /\ tracked' = r.tracked
    /\ held' = FacadeReleased(held, k)
    /\ last' = [last EXCEPT !.op = "facade_release"]
    /\ UNCHANGED <<lk, tests, config, ports, now, cs, jan, view>>

FacadeRelease(k) ==
    /\ cs = NoCs
    /\ jan = JanIdle
    /\ \E r \in {facade_release(Mgr, tracked, k)} :
       /\ SetMgr(r.m)
       /\ tracked' = r.tracked
    /\ held' = FacadeReleased(held, k)
    /\ last' = Op("facade_release", k, "ok")
    /\ UNCHANGED <<lk, tests, config, ports, now, cs, jan, view>>

\* -------------------------------------------------- test jobs (tests.py)
\* how run() ends for a job whose lease was acquired
RunEnds(how) ==
    IF how = "ok" THEN "scheduled"
    ELSE IF how = "add_task_raises" THEN "schedule_failed" ELSE "create_failed"

\* TestExecutionService.run(): tracked reserve() on the job's key, record
\* creation and save under `except Exception: release; raise`, add_task()
\* under the same
TestsRun(k, tg, busy, startOk, how) ==
    /\ cs = NoCs
    /\ jan = JanIdle
    /\ tests.pc[k] = "new"
    /\ \E r \in {reserve(Mgr, tracked, k, tg, TestsTtl, now, busy, startOk, TRUE)} :
       IF r.res \notin {"created", "renewed"}
       THEN /\ SetMgr(r.m)
            /\ tracked' = r.tracked
            /\ tests' = [tests EXCEPT !.pc[k] = "rejected"]
            /\ last' = OpAt("tests_run", k, r.res, tg, now)
       ELSE \E f \in {IF how = "ok" THEN [m |-> r.m, tracked |-> r.tracked]
                       ELSE facade_release(r.m, r.tracked, k)} :
            /\ SetMgr(f.m)
            /\ tracked' = f.tracked
            /\ tests' = [tests EXCEPT
                            !.results = IF how = "create_raises" THEN @
                                        ELSE repo_create(@, k),
                            !.pc[k] = RunEnds(how)]
            /\ last' = OpAt("tests_run", k, how, tg, now)
    /\ UNCHANGED <<lk, config, ports, now, cs, jan, held, view>>

\* _execute_tests() up to the registration of the process: the record is
\* looked up, updated and saved, Popen() is called, all before the `try:`
\* whose `finally` releases the lease
TestsExecStart(k, launched) ==
    /\ cs = NoCs
    /\ jan = JanIdle
    /\ tests.pc[k] = "scheduled"
    /\ \E end \in {IF ~repo_has(tests.results, k) THEN "missing"
                    ELSE IF ~launched THEN "launch_failed" ELSE "running"} :
       /\ tests' = [tests EXCEPT
                       !.results = IF end = "missing" THEN @ ELSE repo_update(@, k),
                       !.running_procs = IF end = "running" THEN @ \cup {k} ELSE @,
                       !.pc[k] = end]
       /\ last' = Op("tests_execute", k, end)
    /\ UNCHANGED <<lk, config, ports, now, leases, active_port, current_target, proxy, cs, jan,
                   tracked, held, view>>

\* _execute_tests(): the process output ends and the `finally` block runs:
\* the process is forgotten and the lease released
TestsExecFinish(k) ==
    /\ cs = NoCs
    /\ jan = JanIdle
    /\ tests.pc[k] \in {"running", "killed"}
    /\ \E f \in {facade_release(Mgr, tracked, k)} :
       /\ SetMgr(f.m)
       /\ tracked' = f.tracked
    /\ tests' = [tests EXCEPT !.running_procs = @ \ {k},
                              !.pc[k] = IF @ = "killed" THEN "stopped" ELSE "completed"]
    /\ last' = Op("tests_finish", k, "ok")
    /\ UNCHANGED <<lk, config, ports, now, cs, jan, held, view>>

\* stop(): "job not found" without a record; without a process the lease is
\* released; with one it is terminated and the lease released, unless
\* terminate() raises
TestsStop(k, terminated) ==
    /\ cs = NoCs
    /\ jan = JanIdle
    /\ tests.pc[k] \in {"scheduled", "running"}
    /\ \E res \in {IF ~repo_has(tests.results, k) THEN "job not found"
                    ELSE IF k \notin tests.running_procs THEN "job is not running"
                    ELSE IF terminated THEN "job stopped" ELSE "terminate failed"} :
       /\ \E f \in {IF res \in {"job is not running", "job stopped"}
                     THEN facade_release(Mgr, tracked, k)
                     ELSE [m |-> Mgr, tracked |-> tracked]} :
          /\ SetMgr(f.m)
          /\ tracked' = f.tracked
       /\ tests' = [tests EXCEPT
                       !.results = IF res \in {"job is not running", "job stopped"}
                                   THEN repo_update(@, k) ELSE @,
                       !.running_procs = @ \ {k},
                       !.pc[k] = IF res = "job stopped" THEN "killed" ELSE @]
       /\ last' = Op("tests_stop", k, res)
    /\ UNCHANGED <<lk, config, ports, now, cs, jan, held, view>>

\* ------------------------------------------------- calls, lock by lock
\* A thread enters a call: reserve() (manager.lease() first), release(),
\* heartbeat() or active_leases(). A direct manager.lease() is reserve()
\* with track=False, a direct manager.release() the fallback of release().
\* the ttl argument of the calls (omitted) and the Target of every lease()
LkTtl == 0
LkTarget == <<"ip1", "admin", "x">>
LkCalls == {"reserve", "release", "heartbeat", "active_leases"}

LkBegin(t, c) ==
    /\ lk.th[t].pc = "idle"
    /\ lk' = [lk EXCEPT !.th[t].pc = c]
    /\ UNCHANGED <<tests, config, ports, now, leases, active_port, current_target, proxy,
                   cs, jan, tracked, held, view, last>>

\* lease(): `with self._lock` entered, the body run to its return or raise
LkLease(t, k, tg, ttl, track, busy, startOk) ==
    /\ lk.th[t].pc = "reserve"
    /\ Free(lk.manager, t)
    /\ \E r \in {lease(Mgr, k, tg, ttl, now, busy, startOk)} :
       /\ SetMgr(r.m)
       /\ lk' = [lk EXCEPT !.manager = t,
                           !.th[t] = [pc |-> "leased", key |-> k, h |-> NoHandle,
                                      track |-> track /\ r.res \in {"created", "renewed"}]]
    /\ UNCHANGED <<tests, config, ports, now, cs, jan, tracked, held, view, last>>

\* lease() that returns to reserve() with the manager lock still held
LkLeaseExitHolding(t) ==
    /\ lk.th[t].pc = "leased"
    /\ lk' = IF lk.th[t].track THEN [lk EXCEPT !.th[t].pc = "track"]
             ELSE [lk EXCEPT !.manager = 0, !.th[t] = NoThread]
    /\ UNCHANGED <<tests, config, ports, now, leases, active_port, current_target, proxy,
                   cs, jan, tracked, held, view, last>>

\* lease(): the `with` block is left, by return or by raise; reserve() goes
\* on to `if track:`
LkLeaseExit(t) ==
    /\ lk.th[t].pc = "leased"
    /\ lk' = IF lk.th[t].track THEN [lk EXCEPT !.manager = 0, !.th[t].pc = "track"]
             ELSE [lk EXCEPT !.manager = 0, !.th[t] = NoThread]
    /\ UNCHANGED <<tests, config, ports, now, leases, active_port, current_target, proxy,
                   cs, jan, tracked, held, view, last>>

\* reserve(): `with self._lock` of the facade entered, previous popped
LkTrackEnter(t) ==
    /\ lk.th[t].pc = "track"
    /\ Free(lk.facade, t)
    /\ lk' = [lk EXCEPT !.facade = t, !.th[t].pc = "popped",
                        !.th[t].h = tracked[lk.th[t].key]]
    /\ tracked' = [tracked EXCEPT ![lk.th[t].key] = NoHandle]
    /\ UNCHANGED <<tests, config, ports, now, leases, active_port, current_target, proxy,
                   cs, jan, held, view, last>>

\* reserve(): previous.release() inside the facade lock; it returns at once
\* when the flag is set, else it enters manager.release()
LkPrevious(t) ==
    /\ lk.th[t].pc = "popped"
    /\ lk.th[t].h # NoHandle
    /\ IF lk.th[t].h.released
       THEN /\ lk' = [lk EXCEPT !.th[t].h = NoHandle]
            /\ UNCHANGED <<leases, active_port, current_target, proxy>>
       ELSE /\ Free(lk.manager, t)
            /\ SetMgr(release(Mgr, lk.th[t].h.owner_id).m)
            /\ lk' = [lk EXCEPT !.manager = t, !.th[t].pc = "previous"]
    /\ UNCHANGED <<tests, config, ports, now, cs, jan, tracked, held, view, last>>

\* manager.release() called by previous.release() leaves its `with` block
LkPreviousExit(t) ==
    /\ lk.th[t].pc = "previous"
    /\ lk' = [lk EXCEPT !.manager = 0, !.th[t].pc = "popped", !.th[t].h = NoHandle]
    /\ UNCHANGED <<tests, config, ports, now, leases, active_port, current_target, proxy,
                   cs, jan, tracked, held, view, last>>

\* reserve(): self._tracked[owner_id] = lease, the facade lock is left
LkInstall(t) ==
    /\ lk.th[t].pc = "popped"
    /\ lk.th[t].h = NoHandle
    /\ tracked' = [tracked EXCEPT ![lk.th[t].key] = new_handle(lk.th[t].key)]
    /\ lk' = [lk EXCEPT !.facade = 0, !.th[t] = NoThread]
    /\ UNCHANGED <<tests, config, ports, now, leases, active_port, current_target, proxy,
                   cs, jan, held, view, last>>

\* release(): `with self._lock` of the facade entered, the handle popped
LkPop(t, k) ==
    /\ lk.th[t].pc = "release"
    /\ Free(lk.facade, t)
    /\ lk' = [lk EXCEPT !.facade = t,
                        !.th[t] = [pc |-> "release_popped", key |-> k, h |-> tracked[k],
                                   track |-> FALSE]]
    /\ tracked' = [tracked EXCEPT ![k] = NoHandle]
    /\ UNCHANGED <<tests, config, ports, now, leases, active_port, current_target, proxy,
                   cs, jan, held, view, last>>

\* release(): the facade lock is left before the lease is released
LkPopExit(t) ==
    /\ lk.th[t].pc = "release_popped"
    /\ lk' = [lk EXCEPT !.facade = 0, !.th[t].pc = "release_call"]
    /\ UNCHANGED <<tests, config, ports, now, leases, active_port, current_target, proxy,
                   cs, jan, tracked, held, view, last>>

\* release(): lease.release() or the fallback manager.release(owner_id)
LkRelease(t) ==
    /\ lk.th[t].pc = "release_call"
    /\ IF lk.th[t].h # NoHandle /\ lk.th[t].h.released
       THEN /\ lk' = [lk EXCEPT !.th[t] = NoThread]
            /\ UNCHANGED <<leases, active_port, current_target, proxy>>
       ELSE /\ Free(lk.manager, t)
            /\ SetMgr(release(Mgr, lk.th[t].key).m)
            /\ lk' = [lk EXCEPT !.manager = t, !.th[t].pc = "in_manager"]
    /\ UNCHANGED <<tests, config, ports, now, cs, jan, tracked, held, view, last>>

\* heartbeat() or active_leases(): `with self._lock` entered, the body run
LkManager(t, k, ttl) ==
    /\ lk.th[t].pc \in {"heartbeat", "active_leases"}
    /\ Free(lk.manager, t)
    /\ SetMgr(IF lk.th[t].pc = "heartbeat" THEN heartbeat(Mgr, k, ttl, now)
              ELSE active_leases(Mgr, now).m)
    /\ lk' = [lk EXCEPT !.manager = t, !.th[t].pc = "in_manager"]
    /\ UNCHANGED <<tests, config, ports, now, cs, jan, tracked, held, view, last>>

\* heartbeat(), active_leases() or release() leaves its `with` block
LkManagerExit(t) ==
    /\ lk.th[t].pc = "in_manager"
    /\ lk' = [lk EXCEPT !.manager = 0, !.th[t] = NoThread]
    /\ UNCHANGED <<tests, config, ports, now, leases, active_port, current_target, proxy,
                   cs, jan, tracked, held, view, last>>

\* the next statement of a call that thread t is in
LkProceed(t) ==
    \/ \E k \in FacadeKeys, track \in BOOLEAN :
          \E e \in Env(cleanup_expired_locked(Mgr, now)) :
            LkLease(t, k, LkTarget, LkTtl, track, e.busy, e.startOk)
    \/ LkLeaseExit(t)
    \/ LkTrackEnter(t)
    \/ LkPrevious(t)
    \/ LkPreviousExit(t)
    \/ LkInstall(t)
    \/ \E k \in FacadeKeys : LkPop(t, k)
    \/ LkPopExit(t)
    \/ LkRelease(t)
    \/ \E k \in FacadeKeys : LkManager(t, k, LkTtl)
    \/ LkManagerExit(t)

\* ----------------------------------------------------------------- specs
\* Calls in the order in which they take the manager lock.
Next ==
    \/ Tick
    \/ \E o \in Owners, tg \in Targets, ttl \in TtlArgs :
          \E e \in Env(cleanup_expired_locked(Mgr, now)) : Lease(o, tg, ttl, now, e.busy, e.startOk)
    \/ \E tg \in LiveTargets, ttl \in TtlArgs : Lease(NoOwner, tg, ttl, now, {}, TRUE)
    \/ \E o \in Owners, ttl \in TtlArgs : Heartbeat(o, ttl, now)
    \/ \E o \in Owners : Release(o)
    \/ ActiveLeases(FALSE)
    \/ Sweep

Spec == Init /\ [][Next]_vars

\* Caller threads and the janitor thread, statement by statement.
NextConc ==
    \/ Tick
    \/ \E o \in Owners, tg \in ConcTargets, ttl \in TtlArgs : LeaseBegin(o, tg, ttl, now)
    \/ \E e \in Env(Mgr) : LeaseFinish(e.busy, e.startOk)
    \/ \E o \in Owners, ttl \in TtlArgs : Heartbeat(o, ttl, now)
    \/ \E o \in Owners : ReleaseBegin(o)
    \/ ReleaseFinish
    \/ JanCollect
    \/ JanPop
    \/ JanTest
    \/ JanClose
    \/ JanClearPort
    \/ JanClearTarget

SpecConc == Init /\ [][NextConc]_vars

\* The janitor thread: one pass of _janitor_loop's body, statement by statement
Janitor ==
    \/ JanCollect
    \/ JanPop
    \/ JanTest
    \/ JanClose
    \/ JanClearPort
    \/ JanClearTarget

\* Caller threads and the janitor thread; the clock advances and the janitor
\* thread, which wakes up every cleanup_interval, is scheduled again and again.
NextLive ==
    \/ Tick
    \/ \E o \in Owners, tg \in LiveTargets, ttl \in TtlArgs : LeaseBegin(o, tg, ttl, now)
    \/ \E e \in Env(Mgr) : LeaseFinish(e.busy, e.startOk)
    \/ \E o \in Owners, ttl \in TtlArgs : Heartbeat(o, ttl, now)
    \/ \E o \in Owners : ReleaseBegin(o)
    \/ ReleaseFinish
    \/ ActiveLeases(FALSE)
    \/ Janitor

SpecLive == Init /\ [][NextLive]_vars /\ WF_vars(Tick) /\ WF_vars(Janitor)

\* The same threads with a controller whose close() may fail in the janitor.
JanitorLoop == Janitor \/ JanCloseRaises

NextJanitor ==
    \/ Tick
    \/ \E o \in Owners, tg \in LiveTargets, ttl \in TtlArgs : LeaseBegin(o, tg, ttl, now)
    \/ \E e \in Env(Mgr) : LeaseFinish(e.busy, e.startOk)
    \/ \E o \in Owners, ttl \in TtlArgs : Heartbeat(o, ttl, now)
    \/ \E o \in Owners : ReleaseBegin(o)
    \/ ReleaseFinish
    \/ JanitorLoop

SpecJanitor == Init /\ [][NextJanitor]_vars /\ WF_vars(Tick) /\ WF_vars(JanitorLoop)

\* The janitor thread from its start to its end
JanitorThread == Janitor \/ JanStop

\* Caller threads, the janitor thread and a thread that shuts the manager down.
NextShutdown ==
    \/ Tick
    \/ \E o \in Owners, tg \in LiveTargets, ttl \in HandleTtls : LeaseBegin(o, tg, ttl, now)
    \/ \E e \in Env(Mgr) : LeaseFinish(e.busy, e.startOk)
    \/ \E o \in Owners : ReleaseBegin(o)
    \/ ReleaseFinish
    \/ JanitorThread
    \/ ShutdownSet
    \/ ShutdownReturn

SpecShutdown ==
    Init /\ [][NextShutdown]_vars /\ WF_vars(JanitorThread) /\ WF_vars(ShutdownReturn)

\* Calls in the order in which they take the manager lock, and a proxy
\* process that may end at any time.
NextCrash ==
    \/ Tick
    \/ \E o \in Owners, tg \in ConcTargets, ttl \in TtlArgs :
          \E e \in Env(cleanup_expired_locked(Mgr, now)) : Lease(o, tg, ttl, now, e.busy, e.startOk)
    \/ \E o \in Owners : Release(o)
    \/ Sweep
    \/ ProxyExits

SpecCrash == Init /\ [][NextCrash]_vars

\* The same with owners that heartbeat; the clock advances and the janitor's
\* sweep comes round again and again.
NextRecover ==
    \/ Tick
    \/ \E o \in Owners, tg \in LiveTargets, ttl \in TtlArgs :
          \E e \in Env(cleanup_expired_locked(Mgr, now)) : Lease(o, tg, ttl, now, e.busy, e.startOk)
    \/ \E o \in Owners, ttl \in TtlArgs : Heartbeat(o, ttl, now)
    \/ \E o \in Owners : Release(o)
    \/ Sweep
    \/ ProxyExits

SpecRecover == Init /\ [][NextRecover]_vars /\ WF_vars(Tick) /\ WF_vars(Sweep)

\* The facade's callers, one call after the other.
NextFacade ==
    \/ Tick
    \/ \E k \in FacadeKeys, tg \in FacadeTargets, ttl \in TtlArgs, track \in BOOLEAN :
          \E e \in Env(cleanup_expired_locked(Mgr, now)) :
            Reserve(k, tg, ttl, now, e.busy, e.startOk, track)
    \/ \E k \in FacadeKeys : FacadeRelease(k)
    \/ \E k \in FacadeKeys, ttl \in TtlArgs : Heartbeat(k, ttl, now)
    \/ ActiveLeases(FALSE)

SpecFacade == Init /\ [][NextFacade]_vars

\* The facade's callers, one call after the other, the tracked reserve()
\* taken one statement at a time.
NextTrack ==
    \/ Tick
    \/ \E k \in FacadeKeys, tg \in FacadeTargets, ttl \in TtlArgs :
          \E e \in Env(cleanup_expired_locked(Mgr, now)) :
            TrackLease(k, tg, ttl, now, e.busy, e.startOk)
    \/ TrackPop
    \/ TrackInstall
    \/ \E k \in FacadeKeys : FacadeRelease(k)
    \/ \E k \in FacadeKeys, ttl \in TtlArgs : Heartbeat(k, ttl, now)

SpecTrack == Init /\ [][NextTrack]_vars

\* The same with a second thread that may call release() on the key of a
\* reserve() in progress.
NextRace ==
    \/ NextTrack
    \/ \E k \in FacadeKeys : FacadeReleaseDuring(k)

SpecRace == Init /\ [][NextRace]_vars

\* Test jobs from run() to their end, with the clock and the janitor.
NextTests ==
    \/ Tick
    \/ Sweep
    \/ \E k \in JobIds, tg \in FacadeTargets, how \in RunOutcomes :
          \E e \in Env(cleanup_expired_locked(Mgr, now)) :
            TestsRun(k, tg, e.busy, e.startOk, how)
    \/ \E k \in JobIds, launched \in BOOLEAN : TestsExecStart(k, launched)
    \/ \E k \in JobIds : TestsExecFinish(k)
    \/ \E k \in JobIds, terminated \in BOOLEAN : TestsStop(k, terminated)

SpecTests == Init /\ [][NextTests]_vars

\* Threads in the facade and the manager, one lock operation at a time, with
\* the clock and the janitor, which takes no lock.
NextLocks ==
    \/ Tick
    \/ Sweep
    \/ \E t \in Threads, c \in LkCalls : LkBegin(t, c)
    \/ \E t \in Threads : LkProceed(t)

SpecLocks == Init /\ [][NextLocks]_vars

\* Calls that read time.time() on entry and take the manager lock later:
\* lease() and heartbeat() run their locked body with the time t they read,
\* which is no later than the time at which they get the lock.
NextStale ==
    \/ Tick
    \/ Sweep
    \/ \E o \in Owners, tg \in FacadeTargets, ttl \in TtlArgs, t \in 0..now :
          \E e \in Env(cleanup_expired_locked(Mgr, t)) :
            Lease(o, tg, ttl, t, e.busy, e.startOk)
    \/ \E o \in Owners, ttl \in TtlArgs, t \in 0..now : Heartbeat(o, ttl, t)
    \/ \E o \in Owners : Release(o)

SpecStale == Init /\ [][NextStale]_vars

\* Callers of the manager and a caller that keeps the list active_leases()
\* returned, in the order in which they take the manager lock.
NextView ==
    \/ Tick
    \/ \E o \in Owners, tg \in LiveTargets, ttl \in TtlArgs :
          \E e \in Env(cleanup_expired_locked(Mgr, now)) : Lease(o, tg, ttl, now, e.busy, e.startOk)
    \/ \E o \in Owners, ttl \in TtlArgs : Heartbeat(o, ttl, now)
    \/ \E o \in Owners : Release(o)
    \/ ActiveLeases(TRUE)

SpecView == Init /\ [][NextView]_vars

\* The facade's callers keeping the handles reserve() returns, one call after
\* the other.
NextHandle ==
    \/ Tick
    \/ \E i \in Slots, k \in FacadeKeys, tg \in LiveTargets, ttl \in HandleTtls, track \in BOOLEAN :
          \E e \in Env(cleanup_expired_locked(Mgr, now)) :
            HReserve(i, k, tg, ttl, now, e.busy, e.startOk, track)
    \/ \E i \in Slots : HEnter(i)
    \/ \E i \in Slots, exc \in BOOLEAN : HExit(i, exc)
    \/ \E i \in Slots : HRelease(i)
    \/ \E i \in Slots : HDrop(i)
    \/ \E k \in FacadeKeys : FacadeRelease(k)
    \/ Sweep

SpecHandle == Init /\ [][NextHandle]_vars

\* ================================================================= claims
\* a step of an operation `op` (Tick is the only step that leaves `last` alone
\* in Spec and SpecFacade)
Completed(op) == now' = now /\ last'.op = op

Quiescent == cs = NoCs /\ jan.pc = "idle"

\* C1: whenever the registry is non-empty, every lease in it records the same
\* port and the same Target (deviceIP, username).
C1_Exclusivity ==
    \A i, j \in DOMAIN leases :
        /\ leases[i].port = leases[j].port
        /\ leases[i].device_ip = leases[j].device_ip
        /\ leases[i].username = leases[j].username

\* C2: the janitor's sweep runs under the manager lock: while a caller is
\* inside its `with self._lock` section, no step of a sweep is taken.
C2_SweepUnderLock == [][cs # NoCs => jan' = jan]_vars

\* C3: between operations the registry is non-empty iff the proxy is alive and
\* a Target is fixed; an empty registry has no proxy, no port and no Target.
C3_IdleActive ==
    Quiescent =>
        /\ (leases # <<>>) <=> (proc_alive(proxy) /\ current_target # NoTarget)
        /\ leases = <<>> => (~proc_alive(proxy) /\ active_port = NoPort
                               /\ current_target = NoTarget)

\* the call lease(o, tg, ..) read time t and finds the proxy alive for a Target
\* other than tg, an unexpired lease in the registry and o not in it
Conflict(o, tg, t) ==
    /\ proc_alive(proxy)
    /\ proxy.target = current_target
    /\ current_target # NoTarget
    /\ current_target # tg
    /\ o # NoOwner
    /\ o \notin Keys(leases)
    /\ \E i \in DOMAIN leases : leases[i].expires_at > t

\* C4: while the proxy is alive for Target T with an unexpired lease, lease() by
\* an owner not in the registry for a Target differing from T in deviceIP,
\* username or password fails with ConfigurationError; the proxy is not
\* restarted or retargeted and no lease is inserted for that owner.
C4_ConflictRejected ==
    [][(Completed("lease") /\ Conflict(last'.owner, last'.target, last'.at)) =>
            /\ last'.res = "ConfigurationError"
            /\ proxy' = proxy
            /\ current_target' = current_target
            /\ last'.owner \notin Keys(leases')
            /\ Keys(leases') \subseteq Keys(leases)]_vars

C4_Witness ==
    /\ last.op = "lease"
    /\ last.res = "ConfigurationError"
    /\ last.owner \notin Keys(leases)
    /\ leases # <<>>
    /\ proc_alive(proxy)
    /\ proxy.target = current_target

\* C5: after two tracked reserve() calls in succession with the same key and
\* the same Target, exactly one lease for the key is in the registry, the
\* tracking map holds a handle for it, and the tunnel is still alive.
C5_TrackedSupersession ==
    [][\A k \in FacadeKeys :
          ( /\ Completed("reserve_tracked")
            /\ last'.owner = k
            /\ last'.res = "renewed"
            /\ tracked[k] # NoHandle
            /\ ~tracked[k].released
            /\ k \in Keys(leases)
            /\ last'.target = current_target
            /\ last'.target = proxy.target ) =>
          ( /\ Cardinality({i \in DOMAIN leases' : leases'[i].owner_id = k}) = 1
            /\ tracked'[k] = new_handle(k)
            /\ proc_alive(proxy') )]_vars

\* C6: when the last lease is removed the proxy is torn down and the Target
\* cleared, so a lease() that finds the registry empty never fails with a
\* stale ConfigurationError, and between operations an empty registry has
\* no live proxy and no Target.
C6_TeardownOnDrain ==
    [][ /\ (cs.op = "lease" /\ cs' = NoCs /\ leases = <<>>)
            => last'.res # "ConfigurationError"
        /\ (Quiescent' /\ leases' = <<>>)
            => (~proc_alive(proxy') /\ current_target' = NoTarget) ]_vars

\* C7: release() of an owner that has no lease - in particular the second of
\* two release() calls in a row - raises nothing and changes nothing; any
\* release() removes the owner's lease and leaves the other leases as they were.
C7_IdempotentRelease ==
    [][Completed("release") =>
         /\ last'.res # "ManagerError"
         /\ last'.owner \notin Keys(leases')
         /\ \A p \in Keys(leases) \ {last'.owner} :
                p \in Keys(leases') /\ Get(leases', p) = Get(leases, p)
         /\ (last'.owner \notin Keys(leases) \/ (last.op = "release" /\ last.owner = last'.owner))
              => /\ last'.res = "noop"
                 /\ UNCHANGED <<leases, active_port, current_target, proxy>>]_vars

C7_Witness ==
    /\ last.op = "release"
    /\ last.res = "noop"
    /\ leases # <<>>
    /\ proc_alive(proxy)

\* a step in which lease() took its renew branch for owner o
Renewed(o) ==
    /\ Completed("lease")
    /\ last'.res = "renewed"
    /\ last'.owner = o

\* C8 as stated: re-lease() by an owner holding an unexpired lease (the clock
\* having advanced since that lease was last renewed) strictly increases the
\* lease's expiresAt, whatever the ttl.
C8_RenewIncreasesExpiry ==
    [][\A o \in Owners :
          (Renewed(o) /\ last'.at > Get(leases, o).last_heartbeat)
              => Get(leases', o).expires_at > Get(leases, o).expires_at]_vars

\* C8 amended: re-lease() sets expiresAt to the time read by the call plus the
\* effective ttl; expiresAt strictly increases when that ttl is not smaller
\* than the previous ttl and the call is later than the last heartbeat.
C8_RenewSetsExpiry ==
    [][\A o \in Owners :
          Renewed(o) =>
            LET old == Get(leases, o)
                new == Get(leases', o)
            IN /\ new.ttl \in {DefaultTtl} \cup (TtlArgs \ {0})
               /\ new.expires_at = last'.at + new.ttl
               /\ (new.ttl >= old.ttl /\ last'.at > old.last_heartbeat)
                    => new.expires_at > old.expires_at]_vars

C8_Witness ==
    /\ last.op = "lease"
    /\ last.res = "renewed"
    /\ Get(leases, last.owner).created_at < last.at
    /\ Get(leases, last.owner).ttl < DefaultTtl

\* C9 as stated: a renewing lease() never starts or closes the proxy, leaves
\* the number of leases and every other owner's lease unchanged, creates no
\* second entry and keeps the lease's port and createdAt.
C9_RenewFrame ==
    [][\A o \in Owners :
          Renewed(o) =>
            /\ proxy' = proxy
            /\ Len(leases') = Len(leases)
            /\ \A p \in Keys(leases) \ {o} :
                   p \in Keys(leases') /\ Get(leases', p) = Get(leases, p)
            /\ Cardinality({i \in DOMAIN leases' : leases'[i].owner_id = o}) = 1
            /\ Get(leases', o).port = Get(leases, o).port
            /\ Get(leases', o).created_at = Get(leases, o).created_at]_vars

\* C9 amended: as C9, except that the other owners' leases that are expired at
\* the time of the call are removed by the sweep lease() runs first; the
\* unexpired ones are unchanged.
C9_RenewFrameAfterSweep ==
    [][\A o \in Owners :
          Renewed(o) =>
            /\ proxy' = proxy
            /\ active_port' = active_port
            /\ current_target' = current_target
            /\ Keys(leases') = {p \in Keys(leases) : Get(leases, p).expires_at > last'.at}
            /\ \A p \in Keys(leases') \ {o} : Get(leases', p) = Get(leases, p)
            /\ Cardinality({i \in DOMAIN leases' : leases'[i].owner_id = o}) = 1
            /\ Get(leases', o).port = Get(leases, o).port
            /\ Get(leases', o).created_at = Get(leases, o).created_at]_vars

C9_Witness ==
    /\ last.op = "lease"
    /\ last.res = "renewed"
    /\ Len(leases) = 2
    /\ Get(leases, last.owner).created_at < last.at
    /\ proc_alive(proxy)

\* C10: while the registry stays non-empty the proxy is not stopped, restarted
\* or retargeted and its port does not change, and every lease granted
\* meanwhile records the port and the Target the proxy runs with.
C10_StableWhileActive ==
    [][ /\ (leases # <<>> /\ leases' # <<>>) => proxy' = proxy
        /\ (cs.op = "lease" /\ cs' = NoCs /\ last'.res = "created" /\ leases # <<>>)
            => LET new == Get(leases', last'.owner)
               IN /\ new.port = proxy.listen_port
                  /\ <<new.device_ip, new.username>> = <<proxy.target[1], proxy.target[2]>> ]_vars

\* C11: when the proxy is not running and every port of the pool is occupied,
\* lease() fails with PortsBusyError: the controller is not started, no lease
\* is inserted (the empty registry stays empty) and active port and Target
\* stay unset.
C11_PortsBusy ==
    [][(Completed("lease") /\ last'.owner # NoOwner
          /\ ~proc_alive(proxy) /\ PoolSet \subseteq last'.busy) =>
            /\ last'.res = "PortsBusyError"
            /\ proxy' = proxy
            /\ leases' = leases
            /\ leases = <<>> => leases' = <<>>
            /\ active_port' = NoPort
            /\ current_target' = NoTarget]_vars

C11_Witness ==
    /\ last.op = "lease"
    /\ last.res = "PortsBusyError"
    /\ last.busy = PoolSet
    /\ leases = <<>>
    /\ ~proc_alive(proxy)
    /\ active_port = NoPort

\* the first port of the pool, in configured order, that is not in busy
FirstFree(busy) ==
    PortPool[CHOOSE i \in DOMAIN PortPool :
                 /\ PortPool[i] \notin busy
                 /\ \A j \in 1..(i - 1) : PortPool[j] \in busy]

\* C12: when the proxy is not running and no port is active, a lease() that
\* starts the proxy starts it on the first port, in configured order, whose
\* bind probe succeeds, and grants that port; the port of every lease in the
\* registry is a member of the configured pool.
C12_PortSelection ==
    [][ /\ (Completed("lease") /\ ~proc_alive(proxy) /\ active_port = NoPort
              /\ last'.res = "created") =>
              /\ ~(PoolSet \subseteq last'.busy)
              /\ proc_alive(proxy')
              /\ proxy'.listen_port = FirstFree(last'.busy)
              /\ active_port' = FirstFree(last'.busy)
              /\ Get(leases', last'.owner).port = FirstFree(last'.busy)
        /\ \A i \in DOMAIN leases' : leases'[i].port \in PoolSet ]_vars

C12_Witness ==
    /\ last.op = "lease"
    /\ last.res = "created"
    /\ last.busy = {PortPool[1]}
    /\ Len(leases) = 1
    /\ leases[1].port = PortPool[2]
    /\ proxy.listen_port = PortPool[2]

\* a step of heartbeat() in any specification: the only call that completes
\* in one step with `last` naming it
HeartbeatStep ==
    /\ cs = NoCs /\ cs' = NoCs /\ jan' = jan /\ now' = now
    /\ last'.op = "heartbeat"

\* C13: heartbeat() for an owner that is not in the registry (never leased,
\* released, or removed by a sweep, also one still in progress) is a silent
\* no-op: it inserts no lease and leaves registry, active port, Target and
\* proxy as they were.
C13_HeartbeatUnknown ==
    [][(HeartbeatStep /\ last'.owner \notin Keys(leases)) =>
            /\ last'.res = "noop"
            /\ last'.owner \notin Keys(leases')
            /\ UNCHANGED <<leases, active_port, current_target, proxy, tracked, held, view>>]_vars

\* a heartbeat found its owner gone while the janitor was between popping
\* that owner and finishing the sweep
C13_Witness ==
    /\ last.op = "heartbeat"
    /\ last.res = "noop"
    /\ jan.pc \in {"test", "close"}
    /\ \E i \in DOMAIN jan.expired : jan.expired[i] = last.owner
    /\ last.owner \notin Keys(leases)

\* a step of active_leases()
ActiveLeasesStep ==
    /\ cs = NoCs /\ cs' = NoCs /\ jan' = jan /\ now' = now
    /\ last'.op = "active_leases"

\* C14: a lease that is never heartbeated or re-leased is eventually removed
\* from the registry once its ttl has elapsed, the janitor being scheduled
\* fairly; and no lease whose expiresAt is at or before the time of an
\* activeLeases() call is in that call's result.
C14_ExpiryReclamation ==
    /\ \A o \in Owners : \A e \in 1..MaxTime :
          (o \in Keys(leases) /\ Get(leases, o).expires_at = e)
              ~> ~(o \in Keys(leases) /\ Get(leases, o).expires_at = e)
    /\ [][ActiveLeasesStep =>
            \A i \in DOMAIN leases' : leases'[i].expires_at > now]_vars

\* the janitor has removed an expired lease that nobody renewed or released
C14_Witness ==
    /\ last.op = "lease"
    /\ last.res = "created"
    /\ last.at < now
    /\ jan.pc = "test"
    /\ jan.expired = <<last.owner>>
    /\ leases = <<>>

\* C15: a lease is removed once, by a release, a sweep or a supersession, and
\* the teardown that follows the removal of the last lease is performed for
\* that drain only: the proxy is never closed while a lease granted after the
\* drain is in the registry.
C15_SingleRemoval ==
    [][(proc_alive(proxy) /\ ~proc_alive(proxy')) => leases' = <<>>]_vars

\* C16: when the `with` block on a lease handle is left, by normal completion
\* or by an exception, release() of its owner has run: the owner has no lease
\* in the registry, and if that lease was the last one the proxy is torn down
\* and port and Target are cleared.
C16_ScopedRelease ==
    [][((Completed("exit") \/ Completed("exit_raised")) /\ last'.res # "noop") =>
            /\ last'.owner \notin Keys(leases')
            /\ \A p \in Keys(leases) \ {last'.owner} :
                   p \in Keys(leases') /\ Get(leases', p) = Get(leases, p)
            /\ Keys(leases) \subseteq {last'.owner} =>
                   /\ ~proc_alive(proxy')
                   /\ active_port' = NoPort
                   /\ current_target' = NoTarget]_vars

\* a scope was left by an exception and its exit released the last lease
C16_Witness ==
    /\ last.op = "exit_raised"
    /\ last.res = "called"
    /\ leases = <<>>
    /\ ~proc_alive(proxy)

\* C17: the second and every later release() on one lease handle, explicit or
\* by the exit of its scope, does not reach the manager: registry, port,
\* Target and proxy stay as they are, also when the same owner holds a lease
\* again that it acquired after the first release().
C17_HandleIdempotent ==
    [][((Completed("handle_release") \/ Completed("exit") \/ Completed("exit_raised"))
          /\ last'.res = "noop") =>
            UNCHANGED <<leases, active_port, current_target, proxy>>]_vars

\* a handle was released a second time while its owner held a newer lease
C17_Witness ==
    /\ last.op = "handle_release"
    /\ last.res = "noop"
    /\ last.owner \in Keys(leases)
    /\ proc_alive(proxy)

\* C20: after the facade's release(trackingKey), with no concurrent reserve on
\* the key, neither the tracking map nor the registry contains the key.
C20_FacadeRelease ==
    [][Completed("facade_release") =>
            /\ tracked'[last'.owner] = NoHandle
            /\ last'.owner \notin Keys(leases')]_vars

\* C18: lease() with an empty ownerID fails with ManagerError before any state
\* is touched: registry, active port, Target and proxy are unchanged, and the
\* call performs no expiry sweep (expired leases stay in the registry).
C18_EmptyOwner ==
    [][(Completed("lease") /\ last'.owner = NoOwner) =>
            /\ last'.res = "ManagerError"
            /\ UNCHANGED <<leases, active_port, current_target, proxy, tracked>>]_vars

\* the rejected call found an expired lease in the registry and left it there
C18_Witness ==
    /\ last.op = "lease"
    /\ last.owner = NoOwner
    /\ last.res = "ManagerError"
    /\ \E i \in DOMAIN leases : leases[i].expires_at <= last.at
    /\ proc_alive(proxy)

\* C19: activeLeases() sweeps before answering: every record it returns has
\* expiresAt strictly greater than the time of the call, every unexpired lease
\* of the registry is returned exactly once, and the returned records are
\* copies that later lease(), heartbeat() and release() calls do not alter.
C19_ActiveLeases ==
    [][ /\ Completed("active_leases") =>
              /\ \A i \in DOMAIN view' : view'[i].expires_at > now
              /\ \A j \in DOMAIN leases : leases[j].expires_at > now =>
                     Cardinality({i \in DOMAIN view' : view'[i] = leases[j]}) = 1
              /\ Len(view') = Cardinality({j \in DOMAIN leases : leases[j].expires_at > now})
        /\ (Completed("lease") \/ Completed("heartbeat") \/ Completed("release")) =>
              view' = view ]_vars

\* a kept list still shows the expiresAt a lease had before a later heartbeat
C19_Witness ==
    /\ last.op = "heartbeat"
    /\ last.res = "ok"
    /\ Len(view) = 2
    /\ \E i \in DOMAIN view :
          /\ view[i].owner_id = last.owner
          /\ last.owner \in Keys(leases)
          /\ view[i].expires_at < Get(leases, last.owner).expires_at

\* C21 as stated: a lease() that fails with ConfigurationError leaves registry
\* (expired, not yet swept leases included), active port, Target and proxy as
\* they were.
C21_ConfigErrorFrame ==
    [][(Completed("lease") /\ last'.res = "ConfigurationError") =>
            UNCHANGED <<leases, active_port, current_target, proxy>>]_vars

\* C21 amended: a lease() that fails with ConfigurationError leaves active
\* port, Target, proxy and every unexpired lease as they were; the leases
\* whose expiresAt is not later than the time of the call are removed by the
\* sweep the call runs first.
C21_ConfigErrorFrameAfterSweep ==
    [][(Completed("lease") /\ last'.res = "ConfigurationError") =>
            /\ leases' = SelectSeq(leases, LAMBDA r : r.expires_at > last'.at)
            /\ leases' # <<>>
            /\ UNCHANGED <<active_port, current_target, proxy>>]_vars

C21_Witness ==
    /\ last.op = "lease"
    /\ last.res = "ConfigurationError"
    /\ Len(leases) = 1
    /\ leases[1].created_at < last.at
    /\ proc_alive(proxy)
    /\ current_target # last.target

\* the outcomes of a call that are TunnelManagerError or one of its subclasses
ManagerErrors == {"ManagerError", "PortsBusyError", "ConfigurationError"}

\* lease() by a valid owner reaches controller.start(): after the sweep of the
\* call the proxy is not alive and some pool port is bindable
StartAttempted ==
    /\ Completed("lease")
    /\ last'.owner # NoOwner
    /\ ~proc_alive(cleanup_expired_locked(Mgr, last'.at).proxy)
    /\ ~(PoolSet \subseteq last'.busy)

\* C22: if the controller's start fails during lease(), the failure reaches
\* the caller as a manager error, no lease is inserted, active port and Target
\* are not recorded, and the manager lock is released.
C22_StartFailure ==
    [][(StartAttempted /\ last'.res # "created") =>
            /\ last'.res \in ManagerErrors
            /\ leases' = <<>>
            /\ active_port' = NoPort
            /\ current_target' = NoTarget
            /\ ~proc_alive(proxy')
            /\ cs' = NoCs]_vars

\* C23: a sweep removes only leases with expiresAt <= now and leaves every
\* lease with expiresAt > now untouched; it closes the proxy and clears port
\* and Target only when it removed a lease and the registry is empty, and a
\* sweep that removes nothing never touches the proxy. Stated on the steps of
\* the janitor's sweep.
C23_ExpirySweep ==
    [][jan' # jan =>
          /\ \A i \in DOMAIN leases :
                 leases[i].expires_at > now => \E j \in DOMAIN leases' : leases'[j] = leases[i]
          /\ (proxy' # proxy \/ active_port' # active_port \/ current_target' # current_target)
                 => leases = <<>>]_vars

\* C24: restart after full expiry.  When every lease of a non-empty registry
\* has expired and nothing has swept it, lease() by an owner that holds none
\* of them, for any Target, removes them all, and, given a pool port that is
\* free and a proxy that starts, returns a new lease: the registry holds just
\* that lease and the proxy runs against the requested Target on its port.
AllExpired(t) == leases # <<>> /\ \A i \in DOMAIN leases : leases[i].expires_at <= t
C24_RestartAfterExpiry ==
    [][(Completed("lease") /\ last'.owner # NoOwner /\ last'.owner \notin Keys(leases)
          /\ AllExpired(last'.at) /\ ~(PoolSet \subseteq last'.busy)
          /\ last'.res # "StartError") =>
            /\ last'.res = "created"
            /\ last'.swept = Len(leases)
            /\ Keys(leases') = {last'.owner}
            /\ Len(leases') = 1
            /\ proc_alive(proxy')
            /\ proxy'.target = last'.target
            /\ current_target' = last'.target
            /\ active_port' = leases'[1].port
            /\ active_port' = FirstFree(last'.busy)]_vars
\* a lease created, for a Target other than the first, by a call whose sweep
\* removed an expired lease
C24_Witness ==
    /\ last.op = "lease"
    /\ last.res = "created"
    /\ last.swept >= 1
    /\ Len(leases) = 1
    /\ leases[1].created_at = last.at
    /\ proc_alive(proxy)
    /\ proxy.target = last.target
    /\ last.target # <<"ip1", "admin", "x">>

\* C25: tracked reserve ordering.  When reserve(track) reaches the release of
\* the previously tracked lease, the new lease is already installed in the
\* tracking map; and when the previous handle stands for the very lease the
\* call just renewed, nothing is released.
C25_TrackedOrdering ==
    [][(cs.op = "track" /\ cs'.op = "install" /\ tracked[cs.owner] # NoHandle) =>
          /\ tracked'[cs.owner] = new_handle(cs.owner)
          /\ (~tracked[cs.owner].released /\ last.res = "renewed") => leases' = leases]_vars

\* C26: heartbeat() on an existing lease sets its expiresAt to the time of the
\* call plus the ttl given, or plus the lease's stored ttl when none is given,
\* stores a given ttl and the time of the call as lastHeartbeat, and changes
\* nothing else: the lease's port, Target and createdAt, the other leases and
\* their order, the active port, the Target and the proxy stay as they were.
C26_HeartbeatFrame ==
    [][(Completed("heartbeat") /\ last'.owner \in Keys(leases)) =>
          LET old == Get(leases, last'.owner)
              new == Get(leases', last'.owner)
              ttl == IF last'.ttl # 0 THEN last'.ttl ELSE old.ttl
          IN /\ last'.res = "ok"
             /\ new.expires_at = last'.at + ttl
             /\ new.ttl = ttl
             /\ new.last_heartbeat = last'.at
             /\ new = [old EXCEPT !.ttl = new.ttl, !.expires_at = new.expires_at,
                                  !.last_heartbeat = new.last_heartbeat]
             /\ Len(leases') = Len(leases)
             /\ \A i \in DOMAIN leases :
                   leases[i].owner_id # last'.owner => leases'[i] = leases[i]
             /\ UNCHANGED <<active_port, current_target, proxy>>]_vars
\* a heartbeat, after its lease was created, gave a ttl shorter than the one
\* the lease had, next to another lease
C26_Witness ==
    /\ last.op = "heartbeat"
    /\ last.res = "ok"
    /\ last.ttl = 1
    /\ Len(leases) = 2
    /\ \E i \in DOMAIN leases :
          /\ leases[i].owner_id = last.owner
          /\ leases[i].created_at < last.at
          /\ leases[i].expires_at = last.at + 1
          /\ leases[i].last_heartbeat = last.at

\* C27: the janitor survives a failing sweep.  A sweep whose controller close
\* raises ends there, the janitor thread goes back to waiting with the error
\* swallowed, no call in progress is disturbed, and a later sweep is started.
C27_JanitorSurvives ==
    /\ (last.op = "sweep_raised") ~> (jan.pc = "pop")
    /\ [][(jan.pc = "close" /\ jan' # jan /\ jan'.pc # "clear_port") =>
            /\ jan' = JanIdle
            /\ last'.res = "swallowed"
            /\ UNCHANGED <<cs, leases, tracked, held, view>>]_vars
\* a sweep raised and the janitor has started the next one
C27_Witness ==
    /\ last.op = "sweep_raised"
    /\ jan.pc = "pop"
    /\ active_port # NoPort

\* C28: shutdown() terminates the janitor.  Once the stop event is set the
\* janitor thread eventually ends, and once ended it takes no further step;
\* shutdown() returns whatever the janitor is doing, without touching the
\* registry, the port, the Target or the proxy; and a shutdown() called
\* when the event is already set changes nothing.
C28_ShutdownStopsJanitor ==
    /\ jan.stop_event ~> (jan.pc = "stopped")
    /\ (cs.op = "shutdown") ~> (cs = NoCs /\ last.op = "shutdown")
    /\ [][jan.pc = "stopped" => jan' = jan]_vars
    /\ [][(cs.op = "shutdown" \/ cs'.op = "shutdown") =>
            /\ jan'.stop_event
            /\ (jan.stop_event /\ cs # cs') => jan' = jan
            /\ cs # cs' => UNCHANGED <<leases, active_port, current_target, proxy>>]_vars
\* shutdown() has returned on the timeout of its join while the janitor is
\* still inside a sweep
C28_Witness ==
    /\ last.op = "shutdown"
    /\ last.res = "timeout"
    /\ cs = NoCs
    /\ jan.stop_event
    /\ jan.pc \in {"pop", "test", "close", "clear_port", "clear_target"}

\* C29: when shutdown() returns, the proxy is not alive and the registry
\* holds no lease.
C29_ShutdownReleases ==
    [][(cs.op = "shutdown" /\ cs' = NoCs) =>
          (leases' = <<>> /\ ~proc_alive(proxy'))]_vars

\* C30: port selection reuses the active port.  A lease() that has to start
\* the proxy while the manager has an active port recorded starts it on that
\* port, whichever earlier candidates are free, and does not fail for lack
\* of a port.
C30_ReuseActivePort ==
    [][LET m1 == cleanup_expired_locked(Mgr, last'.at)
       IN (Completed("lease") /\ last'.owner # NoOwner /\ last'.owner \notin Keys(m1.leases)
             /\ ~proc_alive(m1.proxy) /\ m1.active_port # NoPort
             /\ last'.res # "StartError") =>
               /\ last'.res = "created"
               /\ active_port' = m1.active_port
               /\ proxy'.listen_port = m1.active_port]_vars

\* the items of s without the repetitions, in the order of first occurrence
FirstOccurrences(s) ==
    LET idx == {i \in DOMAIN s : \A j \in 1..(i - 1) : s[j] # s[i]}
    IN [k \in 1..Cardinality(idx) |->
           s[CHOOSE i \in idx : Cardinality({j \in idx : j < i}) = k - 1]]

\* a list of ports that is a valid configuration
ValidPorts(a) ==
    /\ a.given
    /\ a.list # <<>>
    /\ \A i \in DOMAIN a.list : a.list[i] \in 1..65535

\* C31: port pool validation.  Constructing the manager from a port list that
\* is missing, empty or holds a value outside 1..65535 fails and leaves no
\* manager; constructing it from a valid list gives the pool of its items
\* without repetitions, in the order of first occurrence.
C31_PortValidation ==
    [][last'.op = "TunnelManager" =>
          IF ValidPorts(config.arg)
          THEN last'.res = "ok" /\ ports' = FirstOccurrences(config.arg.list)
          ELSE last'.res = "ManagerError" /\ ports' = <<>>]_vars

\* C32: heartbeat() does not resurrect a dead lease.  A heartbeat issued at or
\* after the expiresAt of a lease that is still in the registry does not
\* extend it: the lease keeps its expiresAt, or is gone, so the next sweep
\* reclaims it.
C32_NoResurrection ==
    [][(Completed("heartbeat") /\ last'.owner \in Keys(leases)
          /\ Get(leases, last'.owner).expires_at <= last'.at) =>
            \/ last'.owner \notin Keys(leases')
            \/ Get(leases', last'.owner).expires_at = Get(leases, last'.owner).expires_at]_vars

\* C33: external proxy death does not break exclusivity.  After a lease() by
\* a new owner that finds the proxy process dead while leases for one Target
\* remain, all leases in the registry still share one Target, and the running
\* proxy, if any, targets that Target.  (That they share one port is C30's
\* matter and is left out here.)
C33_DeathKeepsExclusivity ==
    [][LET m1 == cleanup_expired_locked(Mgr, last'.at)
       IN (Completed("lease") /\ last'.owner # NoOwner /\ last'.owner \notin Keys(m1.leases)
             /\ ~proc_alive(m1.proxy) /\ m1.leases # <<>>
             /\ \A i \in DOMAIN m1.leases :
                   /\ m1.leases[i].device_ip = m1.current_target[1]
                   /\ m1.leases[i].username = m1.current_target[2]) =>
               /\ \A i, j \in DOMAIN leases' :
                     /\ leases'[i].device_ip = leases'[j].device_ip
                     /\ leases'[i].username = leases'[j].username
               /\ proc_alive(proxy') =>
                     \A i \in DOMAIN leases' :
                        /\ leases'[i].device_ip = proxy'.target[1]
                        /\ leases'[i].username = proxy'.target[2]]_vars

\* C34: recovery from external proxy death.  Whenever the registry holds
\* leases, all of them due to expire within the time observed, and the proxy
\* process is dead, eventually the proxy is alive again or the registry is
\* empty, whatever heartbeats and re-leases the holders issue.
C34_Recovery ==
    (leases # <<>> /\ ~proc_alive(proxy)
        /\ \A i \in DOMAIN leases : leases[i].expires_at <= MaxTime)
      ~> (leases = <<>> \/ proc_alive(proxy))

\* C35: a handle releases only its own lease.  release() on a handle, explicit
\* or by the exit of its scope, while the registry holds under the handle's
\* ownerID a lease created after the one the handle was returned for, leaves
\* that lease, the port, the Target and the proxy as they are.
C35_OwnLeaseOnly ==
    [][\A i \in Slots :
          ( /\ Completed("handle_release") \/ Completed("exit") \/ Completed("exit_raised")
            /\ held'[i] # held[i]
            /\ held[i].owner_id \in Keys(leases)
            /\ Get(leases, held[i].owner_id).created_at > held[i].born ) =>
          UNCHANGED <<leases, active_port, current_target, proxy>>]_vars

\* C36: facade reserve/release race.  When a tracked reserve(key) returns
\* after a release(key) of another thread has run and returned in the middle
\* of it, the key is either untracked with no lease in the registry, or
\* tracked with its lease in the registry.
C36_ReserveReleaseRace ==
    [][(cs.op = "install" /\ cs' = NoCs /\ last.op = "facade_release") =>
          \/ tracked'[cs.owner] = NoHandle /\ cs.owner \notin Keys(leases')
          \/ tracked'[cs.owner] # NoHandle /\ cs.owner \in Keys(leases')]_vars

\* C37: a test job whose run() acquired a lease and that has ended (record
\* creation failed, scheduling failed, record missing, launch failed,
\* completed, stopped) no longer has that lease: it is neither in the
\* registry nor tracked by the facade.
TestsEnded == {"create_failed", "schedule_failed", "missing", "launch_failed",
               "completed", "stopped"}
C37_LeaseCleanup ==
    \A k \in JobIds :
       tests.pc[k] \in TestsEnded => k \notin Keys(leases) /\ tracked[k] = NoHandle

\* C38: no thread waits for the facade lock while it holds the manager lock,
\* and whenever a call is in progress some thread that is inside a call can
\* execute its next statement: no set of calls waits for one another, and no
\* lock stays with a thread that has returned.
C38_DeadlockFree ==
    /\ \A t \in Threads : lk.manager = t => lk.th[t].pc \notin {"track", "release"}
    /\ (\E t \in Threads : lk.th[t].pc # "idle")
          => ENABLED (\E u \in Threads : LkProceed(u))

\* a reserve() holds the facade lock and waits in previous.release() for the
\* manager lock, held by a second tracked reserve() that is still in lease()
C38_Witness ==
    /\ lk.facade = 1 /\ lk.manager = 2
    /\ lk.th[1].pc = "popped" /\ lk.th[1].h # NoHandle /\ ~lk.th[1].h.released
    /\ lk.th[2].pc = "leased" /\ lk.th[2].track

\* C39: every lease in the registry has created_at <= last_heartbeat,
\* expires_at = last_heartbeat + ttl and a ttl other than zero.
C39_TimeFields ==
    \A i \in DOMAIN leases :
       /\ leases[i].created_at <= leases[i].last_heartbeat
       /\ leases[i].expires_at = leases[i].last_heartbeat + leases[i].ttl
       /\ leases[i].ttl # 0

TypeOK ==
    /\ now \in 0..MaxTime
    /\ active_port \in PoolSet \cup {NoPort}
    /\ current_target \in Targets \cup {NoTarget}
    /\ proxy.alive \in BOOLEAN
    /\ \A i, j \in DOMAIN leases : leases[i].owner_id = leases[j].owner_id => i = j
====
